---- MODULE Spec2Model ----
(***************************************************************************)
(* A model of the partition planner of partitionmanager:                   *)
(*   types.py                   the partition and planned-partition types  *)
(*   table_append_partition.py  split, rate estimate, forward prediction,  *)
(*                              plan_partition_changes, the commit gate    *)
(*                              (evaluate_partition_changes) and the       *)
(*                              generator of REORGANIZE statements         *)
(*                                                                         *)
(* Conventions of the model                                                *)
(*   - A Python Optional is a tuple of length 0 (None) or 1 (the value).   *)
(*   - A datetime is the number of seconds since 2020-01-01T00:00:00Z; a   *)
(*     timedelta is a number of seconds.  Microseconds are not modelled.   *)
(*   - A Python float is an exact rational [n, d] (d > 0, lowest terms);   *)
(*     IEEE rounding is not modelled.                                      *)
(*   - A partition name "p_" + <word> + <digits> is the record             *)
(*     [word, digits]: p_20240101 is [word |-> "", digits |-> <<2,0,...>>],*)
(*     p_start is [word |-> "start", digits |-> <<>>].                     *)
(*   - A value used more than once is passed as a parameter to a second    *)
(*     operator (F calls FWith(x, G(x))) instead of being named in a LET,  *)
(*     which keeps TLC's coverage of the expressions small.                *)
(*   - table_append_partition.py imports ChangedPartition, NewPartition    *)
(*     and ModifiedPartition; types.py defines them under the names        *)
(*     ChangePlannedPartition, NewPlannedPartition and PlannedPartition.   *)
(***************************************************************************)
EXTENDS Integers, Sequences, FiniteSets, TLC

VARIABLES
    partition_list,          \* plan_partition_changes: the table's partitions
    current_positions,       \* plan_partition_changes: the columns' positions
    evaluation_time,         \* plan_partition_changes: "now"
    allowed_lifespan,        \* plan_partition_changes: timedelta, seconds
    num_empty_partitions,    \* plan_partition_changes: wanted empty partitions
    filled_partitions,       \* local of plan_partition_changes
    active_partition,        \* local of plan_partition_changes (Optional)
    empty_partitions,        \* local of plan_partition_changes
    rates,                   \* local of plan_partition_changes
    results,                 \* the plan: a list of planned partitions
    affected_max_value_partition,
    planned_empties,         \* how many of empty_partitions the loop has done
    pc,                      \* where the caller of the core is
    raised,                  \* the exception that ended the last call, or "none"
    should_run,              \* Optional: evaluate_partition_changes' result
    gen,                     \* the generator object of generate_sql_...
    emitted,                 \* the statements the generator has yielded
    predicted,               \* Optional: predict_forward_position's result
    rendered                 \* Optional: the result of an as_partition() call

vars == <<partition_list, current_positions, evaluation_time, allowed_lifespan,
          num_empty_partitions, filled_partitions, active_partition,
          empty_partitions, rates, results, affected_max_value_partition,
          planned_empties, pc, raised, should_run, gen, emitted, predicted,
          rendered>>

-----------------------------------------------------------------------------
(* Python values *)

None == <<>>
Some(x) == <<x>>
Get(o) == o[1]

Abs(x) == IF x < 0 THEN -x ELSE x
Sign(x) == IF x < 0 THEN -1 ELSE 1

LastOf(xs) == xs[Len(xs)]

\* The result of a call: the exception it raised ("none": it returned) and
\* the value it returned.
Return(v) == [raised |-> "none", value |-> v]
Raise(e) == [raised |-> e, value |-> <<>>]

\* The first exception a list of call results holds, or "none"
FirstRaised(rs) ==
    IF \A i \in 1..Len(rs) : rs[i].raised = "none" THEN "none"
    ELSE rs[CHOOSE i \in 1..Len(rs) :
                /\ rs[i].raised # "none"
                /\ \A j \in 1..(i - 1) : rs[j].raised = "none"].raised

\* the indices of xs whose element passes Test
SelectIndices(xs, Test(_)) == {i \in 1..Len(xs) : Test(xs[i])}

\* the elements of xs at the indices ix, in order
AtIndices(xs, ix) ==
    [k \in 1..Cardinality(ix) |->
        xs[CHOOSE i \in ix : Cardinality({j \in ix : j <= i}) = k]]

\* [x for x in xs if Test(x)]
Filter(xs, Test(_)) == AtIndices(xs, SelectIndices(xs, Test))

RECURSIVE GCD(_, _)
GCD(a, b) == IF b = 0 THEN a ELSE GCD(b, a % b)

(* A float, kept exact: n/d in lowest terms, d > 0. *)
Reduce(n, d, g) == [n |-> Sign(d) * (n \div g), d |-> Sign(d) * (d \div g)]
Rat(n, d) == Reduce(n, d, GCD(Abs(n), Abs(d)))

RatInt(k) == [n |-> k, d |-> 1]

RatAddOver(a, b, g) ==
    Rat(a.n * (b.d \div g) + b.n * (a.d \div g), (a.d \div g) * b.d)
RatAdd(a, b) == RatAddOver(a, b, GCD(a.d, b.d))

RatMulOver(a, b, g1, g2) ==
    Rat((a.n \div g1) * (b.n \div g2), (a.d \div g2) * (b.d \div g1))
RatMul(a, b) == RatMulOver(a, b, GCD(Abs(a.n), b.d), GCD(Abs(b.n), a.d))

\* a / b with b # 0
RatDiv(a, b) == RatMul(a, [n |-> Sign(b.n) * b.d, d |-> Abs(b.n)])

RatLess(a, b) == a.n * b.d < b.n * a.d

RatFloor(a) == a.n \div a.d

RECURSIVE RatSum(_)
RatSum(xs) ==
    IF xs = <<>> THEN RatInt(0)
    ELSE RatAdd(RatSum(SubSeq(xs, 1, Len(xs) - 1)), xs[Len(xs)])

\* max of a non-empty list of rationals
RatMax(xs) ==
    xs[CHOOSE i \in 1..Len(xs) : \A j \in 1..Len(xs) : ~RatLess(xs[i], xs[j])]

-----------------------------------------------------------------------------
(* Python ints of any size, and their conversion to float *)

Limb == 2^30

\* A Python int that may not fit a machine word: hi * Limb + lo, lo in 0..Limb-1
PyInt(k) == [hi |-> k \div Limb, lo |-> k % Limb]
IntOf(w) == w.hi * Limb + w.lo

\* w + k for an int k with |k| < Limb
WideAdd(w, k) ==
    [hi |-> w.hi + (w.lo + k) \div Limb, lo |-> (w.lo + k) % Limb]

WideLess(a, b) == a.hi < b.hi \/ (a.hi = b.hi /\ a.lo < b.lo)

RECURSIVE BitLength(_)
BitLength(n) == IF n <= 0 THEN 0 ELSE 1 + BitLength(n \div 2)

\* the significant bits of a double
MantissaBits == 53

\* A float: the whole part (a Python int) and the fraction n/d in [0, 1)
FloatOf(whole, n, d) == [whole |-> whole, n |-> n, d |-> d]

\* The double nearest to w + n/d where the doubles are q apart (q a power of
\* two, q >= 1), ties going to the even one; r is what w has above a multiple
\* of q.
RoundHalfEven(w, n, d, q, r) ==
    IF 2 * (r * d + n) > q * d
         \/ (2 * (r * d + n) = q * d /\ (w.lo \div q) % 2 = 1)
    THEN FloatOf(WideAdd(w, q - r), 0, 1)
    ELSE FloatOf(WideAdd(w, -r), 0, 1)

RoundToQuantum(w, n, d, q) == RoundHalfEven(w, n, d, q, w.lo % q)

\* The double for w + n/d, given the bits of w above MantissaBits.  Below
\* 2^(MantissaBits-1) the fraction is kept as it is; large negative values are
\* not rounded.
RoundWithExcess(w, n, d, excess) ==
    IF excess < 0 THEN FloatOf(w, n, d)
    ELSE RoundToQuantum(w, n, d, 2^excess)

Rounded(w, n, d) ==
    RoundWithExcess(w, n, d, BitLength(w.hi) + 30 - MantissaBits)

\* float(p) of an int p
FloatOfInt(p) == Rounded(p, 0, 1)

\* f + x for a float f without a fraction and a float x, kept as a rational
FloatAdd(f, x) == Rounded(WideAdd(f.whole, x.n \div x.d), x.n % x.d, x.d)

\* int(f): truncation toward zero
IntOfFloat(f) ==
    IF f.whole.hi < 0 /\ f.n > 0 THEN WideAdd(f.whole, 1) ELSE f.whole

-----------------------------------------------------------------------------
(* datetime: the proleptic Gregorian calendar, UTC *)

SecondsPerMinute == 60
SecondsPerHour == 3600
SecondsPerDay == 86400

\* timedelta(days=, hours=, minutes=, seconds=)
Timedelta(days, hours, minutes, seconds) ==
    days * SecondsPerDay + hours * SecondsPerHour
        + minutes * SecondsPerMinute + seconds

\* days from 1970-01-01 to y-m-d: the year starts in March (yy, mp)
DaysFromEra(era, yoe, doy) ==
    era * 146097 + yoe * 365 + yoe \div 4 - yoe \div 100 + doy - 719468
DaysFromShifted(yy, mp, d) ==
    DaysFromEra(yy \div 400, yy % 400, (153 * mp + 2) \div 5 + d - 1)
DaysFromCivil(y, m, d) ==
    DaysFromShifted(IF m <= 2 THEN y - 1 ELSE y, (m + 9) % 12, d)

\* [y, m, d] of a day number
CivilDate(y, m, d) == [y |-> IF m <= 2 THEN y + 1 ELSE y, m |-> m, d |-> d]
CivilFromMp(y, doy, mp) ==
    CivilDate(y, IF mp < 10 THEN mp + 3 ELSE mp - 9,
              doy - (153 * mp + 2) \div 5 + 1)
CivilFromDoy(y, doy) == CivilFromMp(y, doy, (5 * doy + 2) \div 153)
CivilFromYoe(era, doe, yoe) ==
    CivilFromDoy(yoe + era * 400,
                 doe - (365 * yoe + yoe \div 4 - yoe \div 100))
CivilFromDoe(era, doe) ==
    CivilFromYoe(era, doe,
        (doe - doe \div 1460 + doe \div 36524 - doe \div 146096) \div 365)
CivilFromDays(z) ==
    CivilFromDoe((z + 719468) \div 146097, (z + 719468) % 146097)

IsLeap(y) == (y % 4 = 0 /\ y % 100 # 0) \/ y % 400 = 0

DaysInMonth(y, m) ==
    IF m = 2 THEN (IF IsLeap(y) THEN 29 ELSE 28)
    ELSE IF m \in {4, 6, 9, 11} THEN 30 ELSE 31

\* the day datetimes are counted from
EpochDay == DaysFromCivil(2020, 1, 1)

\* datetime(y, m, d, tzinfo=utc)
Datetime(y, m, d) == (DaysFromCivil(y, m, d) - EpochDay) * SecondsPerDay

\* datetime.date(), as a day number from EpochDay
DateOf(t) == t \div SecondsPerDay

\* datetime.replace(hour=0, minute=0): the seconds are kept
ReplaceHourMinute(t) == DateOf(t) * SecondsPerDay + (t % SecondsPerMinute)

-----------------------------------------------------------------------------
(* Partition names and Partition.timestamp() *)

Name(word, digits) == [word |-> word, digits |-> digits]

\* the decimal digits of n, zero-padded to width w
RECURSIVE DigitsOf(_, _)
DigitsOf(n, w) ==
    IF w = 0 THEN <<>> ELSE Append(DigitsOf(n \div 10, w - 1), n % 10)

RECURSIVE NumberOf(_)
NumberOf(ds) ==
    IF ds = <<>> THEN 0
    ELSE 10 * NumberOf(SubSeq(ds, 1, Len(ds) - 1)) + ds[Len(ds)]

Ymd(y, m, d) == Name("", DigitsOf(y, 4) \o DigitsOf(m, 2) \o DigitsOf(d, 2))
Ym(y, m) == Name("", DigitsOf(y, 4) \o DigitsOf(m, 2))

\* f"p_{timestamp:%Y%m}": the day is left out of the name
FormatCivilYearMonth(c) == Ym(c.y, c.m)

\* f"p_{timestamp:%Y%m%d}"
FormatCivil(c) == Ymd(c.y, c.m, c.d)
FormatName(t) == FormatCivil(CivilFromDays(DateOf(t) + EpochDay))

\* What strptime's pattern for %m can take from the head of ds, in the order
\* the alternation 1[0-2]|0[1-9]|[1-9] tries it: a list of [v, len].
MonthMatches(ds) ==
    (IF Len(ds) >= 2 /\ ds[1] = 1 /\ ds[2] \in 0..2
        THEN << [v |-> 10 + ds[2], len |-> 2] >> ELSE <<>>)
    \o (IF Len(ds) >= 2 /\ ds[1] = 0 /\ ds[2] \in 1..9
        THEN << [v |-> ds[2], len |-> 2] >> ELSE <<>>)
    \o (IF Len(ds) >= 1 /\ ds[1] \in 1..9
        THEN << [v |-> ds[1], len |-> 1] >> ELSE <<>>)

\* The same for %d: 3[0-1]|[1-2]\d|0[1-9]|[1-9]
DayMatches(ds) ==
    (IF Len(ds) >= 2 /\ ds[1] = 3 /\ ds[2] \in 0..1
        THEN << [v |-> 30 + ds[2], len |-> 2] >> ELSE <<>>)
    \o (IF Len(ds) >= 2 /\ ds[1] \in 1..2
        THEN << [v |-> 10 * ds[1] + ds[2], len |-> 2] >> ELSE <<>>)
    \o (IF Len(ds) >= 2 /\ ds[1] = 0 /\ ds[2] \in 1..9
        THEN << [v |-> ds[2], len |-> 2] >> ELSE <<>>)
    \o (IF Len(ds) >= 1 /\ ds[1] \in 1..9
        THEN << [v |-> ds[1], len |-> 1] >> ELSE <<>>)

\* A date strptime accepts: None when the fields are out of range
ValidDate(y, m, d) ==
    IF y >= 1 /\ d <= DaysInMonth(y, m) THEN Some(Datetime(y, m, d)) ELSE None

\* The month the pattern settles on: the first a day can follow (0: none)
FirstMonthWithDay(rest, ms) ==
    IF \A i \in 1..Len(ms) : DayMatches(SubSeq(rest, ms[i].len + 1, Len(rest))) = <<>>
    THEN 0
    ELSE CHOOSE i \in 1..Len(ms) :
            /\ DayMatches(SubSeq(rest, ms[i].len + 1, Len(rest))) # <<>>
            /\ \A j \in 1..(i - 1) :
                  DayMatches(SubSeq(rest, ms[j].len + 1, Len(rest))) = <<>>

\* Text left over after the match is an error
YmdOf(year, rest, month, day) ==
    IF month.len + day.len # Len(rest) THEN None
    ELSE ValidDate(year, month.v, day.v)

YmdWithMonth(year, rest, month) ==
    YmdOf(year, rest, month,
          DayMatches(SubSeq(rest, month.len + 1, Len(rest)))[1])

YmdWithMonths(year, rest, ms, i) ==
    IF i = 0 THEN None ELSE YmdWithMonth(year, rest, ms[i])

YmdFrom(year, rest, ms) ==
    YmdWithMonths(year, rest, ms, FirstMonthWithDay(rest, ms))

\* datetime.strptime(name, "p_%Y%m%d"): None stands for ValueError
StrptimeYmd(name) ==
    IF name.word # "" \/ Len(name.digits) < 4 THEN None
    ELSE YmdFrom(NumberOf(SubSeq(name.digits, 1, 4)),
                 SubSeq(name.digits, 5, Len(name.digits)),
                 MonthMatches(SubSeq(name.digits, 5, Len(name.digits))))

YmFrom(year, rest, ms) ==
    IF ms = <<>> THEN None
    ELSE IF ms[1].len # Len(rest) THEN None
    ELSE ValidDate(year, ms[1].v, 1)

\* datetime.strptime(name, "p_%Y%m")
StrptimeYm(name) ==
    IF name.word # "" \/ Len(name.digits) < 4 THEN None
    ELSE YmFrom(NumberOf(SubSeq(name.digits, 1, 4)),
                SubSeq(name.digits, 5, Len(name.digits)),
                MonthMatches(SubSeq(name.digits, 5, Len(name.digits))))

\* datetime.strptime(name, "p_%Y")
StrptimeY(name) ==
    IF name.word # "" \/ Len(name.digits) # 4 THEN None
    ELSE ValidDate(NumberOf(name.digits), 1, 1)

\* Partition.has_time: "start" in self.name
HasTime(name) == name.word # "start"

StartYear == 2021

\* the first parse that succeeds
FirstParsed(ymd, ym, y) ==
    IF ymd # None THEN ymd ELSE IF ym # None THEN ym ELSE y

\* Partition.timestamp()
NameTimestamp(name) ==
    IF ~HasTime(name) THEN Some(Datetime(StartYear, 1, 1))
    ELSE FirstParsed(StrptimeYmd(name), StrptimeYm(name), StrptimeY(name))

-----------------------------------------------------------------------------
(* The Partition classes *)

PositionPartition(name, positions) ==
    [type |-> "PositionPartition", name |-> name, positions |-> positions,
     count |-> 0, instant |-> None]

MaxValuePartition(name, count) ==
    [type |-> "MaxValuePartition", name |-> name, positions |-> <<>>,
     count |-> count, instant |-> None]

InstantPartition(now, positions) ==
    [type |-> "InstantPartition", name |-> Name("Instant", <<>>),
     positions |-> positions, count |-> 0, instant |-> now]

\* A plain list of positions, where the code passes one for a partition
PyList(positions) ==
    [type |-> "list", name |-> Name("", <<>>), positions |-> positions,
     count |-> 0, instant |-> None]

\* isinstance(p, PositionPartition): InstantPartition is a subclass
IsPositionPartition(p) == p.type \in {"PositionPartition", "InstantPartition"}
IsMaxValuePartition(p) == p.type = "MaxValuePartition"
IsPartition(p) == IsPositionPartition(p) \/ IsMaxValuePartition(p)

NumColumns(p) == IF IsMaxValuePartition(p) THEN p.count ELSE Len(p.positions)

\* Partition.timestamp(), InstantPartition.timestamp()
Timestamp(p) ==
    IF p.type = "InstantPartition" THEN p.instant ELSE NameTimestamp(p.name)

\* PositionPartition.__lt__
PositionPartitionLt(self, other) ==
    IF IsMaxValuePartition(other)
    THEN IF Len(self.positions) # other.count
         THEN Raise("UnexpectedPartitionException")
         ELSE Return(TRUE)
    ELSE IF ~(other.type = "list" \/ IsPositionPartition(other))
              \/ other.positions = <<>>
              \/ Len(self.positions) # Len(other.positions)
         THEN Raise("UnexpectedPartitionException")
         ELSE Return(\A i \in 1..Len(self.positions) :
                        self.positions[i] < other.positions[i])

\* MaxValuePartition.__lt__
MaxValuePartitionLt(self, other) ==
    IF self.count # NumColumns(other)
    THEN Raise("UnexpectedPartitionException")
    ELSE Return(FALSE)

\* p < other
PartitionLt(p, other) ==
    IF IsMaxValuePartition(p) THEN MaxValuePartitionLt(p, other)
    ELSE PositionPartitionLt(p, other)

\* Partition.values(): the tuple of bounds, or MAXVALUE once per column
\* (["MAXVALUE"] * None is a TypeError; a count of -1 stands for None)
Values(p) ==
    IF IsMaxValuePartition(p)
    THEN IF p.count = -1 THEN Raise("TypeError")
         ELSE Return([maxvalue |-> TRUE, count |-> p.count, positions |-> <<>>])
    ELSE Return([maxvalue |-> FALSE, count |-> 0, positions |-> p.positions])

-----------------------------------------------------------------------------
(* The PlannedPartition classes *)

\* ChangePlannedPartition.__init__ (imported as ChangedPartition)
ChangedPartition(old_part) ==
    [type |-> "ChangedPartition",
     old |-> Some(old_part),
     num_columns |-> Some(NumColumns(old_part)),
     positions |-> IF IsPositionPartition(old_part)
                   THEN Some(old_part.positions) ELSE None,
     timestamp |-> Timestamp(old_part),
     important |-> FALSE,
     old_positions |-> IF IsPositionPartition(old_part)
                       THEN Some(old_part.positions) ELSE None]

\* NewPlannedPartition.__init__ (imported as NewPartition)
NewPartition ==
    [type |-> "NewPartition", old |-> None, num_columns |-> None,
     positions |-> None, timestamp |-> None, important |-> TRUE,
     old_positions |-> None]

IsNewPartition(p) == p.type = "NewPartition"
IsChangedPartition(p) == p.type = "ChangedPartition"
\* isinstance(p, ModifiedPartition): the base class PlannedPartition
IsModifiedPartition(p) == IsNewPartition(p) \/ IsChangedPartition(p)

\* PlannedPartition.set_timestamp
SetTimestamp(self, timestamp) ==
    [self EXCEPT !.timestamp = Some(ReplaceHourMinute(timestamp))]

\* set_position writing into the list self.positions names (positions[:] =
\* pos) instead of binding the attribute anew: line 419 made that list the
\* old partition's own
SetPositionInPlace(self, pos) ==
    IF self.num_columns # None /\ Len(pos) # Get(self.num_columns)
    THEN Raise("UnexpectedPartitionException")
    ELSE IF self.positions = None \/ self.positions # self.old_positions
    THEN Return([self EXCEPT !.positions = Some(pos)])
    ELSE Return([self EXCEPT !.positions = Some(pos),
                             !.old_positions = Some(pos),
                             !.old = Some([Get(self.old) EXCEPT
                                              !.positions = pos])])

\* PlannedPartition.set_position
SetPosition(self, pos) ==
    IF self.num_columns # None /\ Len(pos) # Get(self.num_columns)
    THEN Raise("UnexpectedPartitionException")
    ELSE Return([self EXCEPT !.positions = Some(pos)])

\* PlannedPartition.set_important
SetImportant(self) == [self EXCEPT !.important = TRUE]

\* set_as_max_value without line 374: the positions stay
SetAsMaxValueKeepingPositions(self) ==
    IF self.positions = None THEN Raise("TypeError")
    ELSE Return([self EXCEPT !.num_columns = Some(Len(Get(self.positions)))])

\* PlannedPartition.set_as_max_value: len(None) is a TypeError
SetAsMaxValue(self) ==
    IF self.positions = None THEN Raise("TypeError")
    ELSE Return([self EXCEPT !.num_columns = Some(Len(Get(self.positions))),
                             !.positions = None])

\* Python's truth value of self.positions: None and [] are false
PositionsTruthy(self) == self.positions # None /\ Get(self.positions) # <<>>

AsPartitionNamed(self, name) ==
    IF PositionsTruthy(self)
    THEN PositionPartition(name, Get(self.positions))
    ELSE MaxValuePartition(name, IF self.num_columns = None THEN -1
                                 ELSE Get(self.num_columns))

\* PlannedPartition.as_partition.  MaxValuePartition takes num_columns as it
\* is: a count of -1 stands for count=None.
AsPartition(self) ==
    IF self.timestamp = None THEN Raise("ValueError")
    ELSE Return(AsPartitionNamed(self, FormatName(Get(self.timestamp))))

\* ChangePlannedPartition.has_modifications: a or b and c or d, where
\* None.date() is an AttributeError
ChangedHasModifications(self, old_ts) ==
    IF self.positions # self.old_positions THEN Return(TRUE)
    ELSE IF old_ts = None /\ self.timestamp # None THEN Return(TRUE)
    ELSE IF self.timestamp = None \/ old_ts = None THEN Raise("AttributeError")
    ELSE Return(DateOf(Get(self.timestamp)) # DateOf(Get(old_ts)))

\* has_modifications of either class
HasModifications(self) ==
    IF IsNewPartition(self) THEN Return(FALSE)
    ELSE ChangedHasModifications(self, Timestamp(Get(self.old)))

-----------------------------------------------------------------------------
(* tools.py *)

\* pairwise(xs): the adjacent pairs of xs
Pairwise(xs) ==
    [i \in 1..(IF Len(xs) = 0 THEN 0 ELSE Len(xs) - 1) |-> <<xs[i], xs[i + 1]>>]

\* iter_show_end(xs): each element of xs with whether it is the last
IterShowEnd(xs) == [i \in 1..Len(xs) |-> <<xs[i], i = Len(xs)>>]

-----------------------------------------------------------------------------
(* table_append_partition.py: split, rates, predictions *)

\* lines 189-201 with pop() for pop(0): the last partition becomes the active
SplitIntoPopLast(less_than_partitions, greater_or_equal_partitions) ==
    IF greater_or_equal_partitions = <<>> THEN Raise("IndexError")
    ELSE Return([filled |-> less_than_partitions,
                 active |-> LastOf(greater_or_equal_partitions),
                 empty |-> SubSeq(greater_or_equal_partitions, 1,
                                  Len(greater_or_equal_partitions) - 1)])

\* lines 189-201: the two lists, and the active partition popped
SplitInto(less_than_partitions, greater_or_equal_partitions) ==
    IF greater_or_equal_partitions = <<>> THEN Raise("IndexError")
    ELSE Return([filled |-> less_than_partitions,
                 active |-> Head(greater_or_equal_partitions),
                 empty |-> Tail(greater_or_equal_partitions)])

\* lines 192-196, given each p < current_positions
SplitBy(parts, lts) ==
    IF FirstRaised(lts) # "none" THEN Raise(FirstRaised(lts))
    ELSE SplitInto(AtIndices(parts, {i \in 1..Len(parts) : lts[i].value}),
                   AtIndices(parts, {i \in 1..Len(parts) : ~lts[i].value}))

\* split_partitions_around_positions
SplitPartitionsAroundPositions(parts, positions) ==
    IF \E i \in 1..Len(parts) : ~IsPartition(parts[i])
    THEN Raise("UnexpectedPartitionException")
    ELSE SplitBy(parts, [i \in 1..Len(parts) |->
                           PartitionLt(parts[i], PyList(positions))])

\* lines 214-221, given the two timestamps
IncreasePerDayBetween(p1, p2, t1, t2) ==
    IF t1 = None \/ t2 = None THEN Raise("TypeError")
    ELSE IF Get(t1) >= Get(t2) THEN Raise("ValueError")
    ELSE IF NumColumns(p1) # NumColumns(p2) THEN Raise("ValueError")
    ELSE Return([i \in 1..Len(p1.positions) |->
                   RatDiv(RatInt(p2.positions[i] - p1.positions[i]),
                          Rat(Get(t2) - Get(t1), SecondsPerDay))])

\* get_position_increase_per_day: positions per day, one rate per column
GetPositionIncreasePerDay(p1, p2) ==
    IF ~IsPositionPartition(p1) \/ ~IsPositionPartition(p2)
    THEN Raise("ValueError")
    ELSE IncreasePerDayBetween(p1, p2, Timestamp(p1), Timestamp(p2))

WeightCeiling == 10000

\* generate_weights: 10000/count, ..., 10000/2, 10000/1
GenerateWeights(count) ==
    [i \in 1..count |-> Rat(WeightCeiling, count + 1 - i)]

\* lines 249-255: the weighted sums over the sum of the weights
WeightedAverage(columns, pos_rates, weights) ==
    IF weights = <<>> /\ columns > 0 THEN Raise("ZeroDivisionError")
    ELSE Return([idx \in 1..columns |->
                   RatDiv(RatSum([i \in 1..Len(pos_rates) |->
                                    RatMul(pos_rates[i].value[idx], weights[i])]),
                          RatSum(weights))])

\* lines 243-255, given the rate of each adjacent pair
WeightedOver(partitions, pos_rates) ==
    IF FirstRaised(pos_rates) # "none" THEN Raise(FirstRaised(pos_rates))
    ELSE WeightedAverage(NumColumns(partitions[1]), pos_rates,
                         GenerateWeights(Len(pos_rates)))

PairRates(pairs) ==
    [i \in 1..Len(pairs) |-> GetPositionIncreasePerDay(pairs[i][1], pairs[i][2])]

\* get_weighted_position_increase_per_day_for_partitions
GetWeightedPositionIncreasePerDayForPartitions(partitions) ==
    IF partitions = <<>> THEN Raise("ValueError")
    ELSE WeightedOver(partitions, PairRates(Pairwise(partitions)))

\* lines 274-276: assert new >= old
AssertForward(positions, predicted_positions) ==
    IF \E i \in 1..Len(positions) :
          WideLess(predicted_positions[i], positions[i])
    THEN Raise("AssertionError")
    ELSE Return(predicted_positions)

\* predict_forward_position, on Python ints of any size: int(p + i), where
\* p + i is the float sum of float(p) and i = x * duration / timedelta(days=1)
PredictForwardPosition(positions, rate_of_change, duration) ==
    IF Len(positions) # Len(rate_of_change) THEN Raise("ValueError")
    ELSE IF \E i \in 1..Len(rate_of_change) : rate_of_change[i].n < 0
    THEN Raise("ValueError")
    ELSE AssertForward(positions,
            [i \in 1..Len(positions) |->
               IntOfFloat(FloatAdd(FloatOfInt(positions[i]),
                   RatMul(rate_of_change[i], Rat(duration, SecondsPerDay))))])

\* the result of predict_forward_position as machine words
Narrowed(r) ==
    IF r.raised # "none" THEN r
    ELSE Return([i \in 1..Len(r.value) |-> IntOf(r.value[i])])

\* predict_forward_position called with positions that fit a machine word,
\* as plan_partition_changes calls it (None has no len())
PredictForwardPositionOf(positions, rate_of_change, duration) ==
    IF positions = None THEN Raise("TypeError")
    ELSE Narrowed(PredictForwardPosition(
            [i \in 1..Len(Get(positions)) |-> PyInt(Get(positions)[i])],
            rate_of_change, duration))

\* lines 297-300, given max(days_remaining)
TimeAfterDays(eval_time, most) ==
    IF most.n < 0 THEN Raise("ValueError")
    ELSE Return(eval_time + RatFloor(RatMul(most, RatInt(SecondsPerDay))))

\* predict_forward_time: the second the positions reach all end_positions
PredictForwardTime(positions, end_positions, rts, eval_time) ==
    IF ~(Len(positions) = Len(end_positions) /\ Len(end_positions) = Len(rts))
    THEN Raise("ValueError")
    ELSE IF \E i \in 1..Len(rts) : rts[i].n < 0 THEN Raise("ValueError")
    ELSE IF \E i \in 1..Len(rts) : rts[i].n = 0 THEN Raise("ZeroDivisionError")
    ELSE IF rts = <<>> THEN Raise("ValueError")
    ELSE TimeAfterDays(eval_time,
            RatMax([i \in 1..Len(rts) |->
                      RatDiv(RatInt(end_positions[i] - positions[i]), rts[i])]))

-----------------------------------------------------------------------------
(* plan_partition_changes, one action per step of its body *)

OneHour == 3600
TenMinutes == 600

PlanLocals ==
    <<filled_partitions, active_partition, empty_partitions, rates, results,
      affected_max_value_partition, planned_empties>>

PlanArguments ==
    <<partition_list, current_positions, evaluation_time, allowed_lifespan,
      num_empty_partitions>>

AfterPlan == <<should_run, gen, emitted, predicted, rendered>>

\* the call ends with exception e
PlanRaise(e) ==
    /\ raised' = e
    /\ pc' = "raised"

\* lines 324-328 without the comparison with evaluation_time
ActiveCheckUnordered(active_timestamp) ==
    IF active_timestamp = None THEN "TypeError" ELSE "none"

\* lines 324-328, given active_partition.timestamp()
ActiveCheck(active_timestamp) ==
    IF active_timestamp = None THEN "TypeError"
    ELSE IF Get(active_timestamp) >= evaluation_time THEN "ValueError"
    ELSE "none"

\* lines 317-328 without lines 320-321: an empty list of empty partitions
\* is let through
SplitCheckWithoutEmpties(split) ==
    IF split.raised # "none" THEN split.raised
    ELSE ActiveCheck(Timestamp(split.value.active))

\* lines 317-328: the exception raised, or "none"
SplitCheck(split) ==
    IF split.raised # "none" THEN split.raised
    ELSE IF split.value.empty = <<>> THEN "NoEmptyPartitionsAvailableException"
    ELSE ActiveCheck(Timestamp(split.value.active))

\* line 317 assigns the three locals before lines 320-328 raise
PlanSplitTo(split, error) ==
    /\ IF split.raised # "none"
       THEN UNCHANGED <<filled_partitions, active_partition, empty_partitions>>
       ELSE /\ filled_partitions' = split.value.filled
            /\ active_partition' = Some(split.value.active)
            /\ empty_partitions' = split.value.empty
    /\ IF error # "none" THEN PlanRaise(error)
       ELSE pc' = "rates" /\ UNCHANGED raised

PlanSplitWith(split) == PlanSplitTo(split, SplitCheck(split))

\* lines 317-328
PlanSplit ==
    /\ pc = "plan"
    /\ PlanSplitWith(SplitPartitionsAroundPositions(partition_list,
                                                    current_positions))
    /\ UNCHANGED <<PlanArguments, rates, results, affected_max_value_partition,
                   planned_empties, AfterPlan>>

\* lines 336-339; a MaxValuePartition has no attribute positions
RateRelevantPartitions(active) ==
    IF IsMaxValuePartition(active) THEN Raise("AttributeError")
    ELSE Return(filled_partitions
                \o << InstantPartition(Timestamp(active), current_positions),
                      InstantPartition(Some(evaluation_time), active.positions) >>)

RatesOf(relevant) ==
    IF relevant.raised # "none" THEN relevant
    ELSE GetWeightedPositionIncreasePerDayForPartitions(relevant.value)

PlanRatesTo(r) ==
    IF r.raised # "none"
    THEN PlanRaise(r.raised) /\ UNCHANGED rates
    ELSE rates' = r.value /\ pc' = "active" /\ UNCHANGED raised

\* lines 336-342
PlanRates ==
    /\ pc = "rates"
    /\ PlanRatesTo(RatesOf(RateRelevantPartitions(Get(active_partition))))
    /\ UNCHANGED <<PlanArguments, filled_partitions, active_partition,
                   empty_partitions, results, affected_max_value_partition,
                   planned_empties, AfterPlan>>

\* line 361: .set_position(new_pos).set_important()
Positioned(positioned) ==
    IF positioned.raised # "none" THEN positioned
    ELSE Return(SetImportant(positioned.value))

\* lines 352-362
UrgentEdit(active, new_pos) ==
    IF new_pos.raised # "none" THEN new_pos
    ELSE Positioned(SetPosition(ChangedPartition(active), new_pos.value))

\* lines 346-366 with <= for < at line 349
ActiveEditWithinOneHour(active, active_timestamp) ==
    IF allowed_lifespan - (evaluation_time - Get(active_timestamp)) <= OneHour
    THEN UrgentEdit(active,
            PredictForwardPositionOf(Some(current_positions), rates, TenMinutes))
    ELSE Return(ChangedPartition(active))

\* lines 346-366: the entry for the active partition
ActiveEdit(active, active_timestamp) ==
    IF allowed_lifespan - (evaluation_time - Get(active_timestamp)) < OneHour
    THEN UrgentEdit(active,
            PredictForwardPositionOf(Some(current_positions), rates, TenMinutes))
    ELSE Return(ChangedPartition(active))

PlanActiveTo(edit) ==
    IF edit.raised # "none"
    THEN PlanRaise(edit.raised) /\ UNCHANGED results
    ELSE results' = << edit.value >> /\ pc' = "empties" /\ UNCHANGED raised

\* lines 344-370
PlanActive ==
    /\ pc = "active"
    /\ PlanActiveTo(ActiveEdit(Get(active_partition),
                               Timestamp(Get(active_partition))))
    /\ affected_max_value_partition' = FALSE
    /\ UNCHANGED <<PlanArguments, filled_partitions, active_partition,
                   empty_partitions, rates, planned_empties, AfterPlan>>

\* lines 390-401, given the changeover time and partition.timestamp()
MarkByChangeover(changed_partition, changeover_time, partition_timestamp) ==
    IF changeover_time.raised # "none" THEN changeover_time
    ELSE IF partition_timestamp = None THEN Raise("AttributeError")
    ELSE IF DateOf(changeover_time.value) # DateOf(Get(partition_timestamp))
    THEN Return(SetImportant(changed_partition))
    ELSE Return(changed_partition)

\* lines 386-401
MarkImportant(partition, last_changed, changed_partition) ==
    IF ~IsPositionPartition(partition) THEN Return(changed_partition)
    ELSE IF last_changed.positions = None THEN Raise("TypeError")
    ELSE MarkByChangeover(changed_partition,
            PredictForwardTime(Get(last_changed.positions), partition.positions,
                               rates, evaluation_time),
            Timestamp(partition))

\* lines 380-384, then 386-401
EmptyEditPositioned(partition, last_changed, partition_start_time, positioned) ==
    IF positioned.raised # "none" THEN positioned
    ELSE MarkImportant(partition, last_changed,
            SetTimestamp(positioned.value, partition_start_time))

EmptyEditAt(partition, last_changed, changed_part_pos) ==
    IF changed_part_pos.raised # "none" THEN changed_part_pos
    ELSE EmptyEditPositioned(partition, last_changed,
            Get(last_changed.timestamp) + allowed_lifespan,
            SetPosition(ChangedPartition(partition), changed_part_pos.value))

\* lines 374-401: the entry for one empty partition (None + timedelta is a
\* TypeError)
EmptyEdit(partition, last_changed) ==
    IF last_changed.timestamp = None THEN Raise("TypeError")
    ELSE EmptyEditAt(partition, last_changed,
            PredictForwardPositionOf(last_changed.positions, rates,
                                     allowed_lifespan))

PlanEmptyTo(partition, edit) ==
    IF edit.raised # "none"
    THEN /\ PlanRaise(edit.raised)
         /\ UNCHANGED <<results, affected_max_value_partition, planned_empties>>
    ELSE /\ results' = Append(results, edit.value)
         /\ affected_max_value_partition' =
               (affected_max_value_partition \/ IsMaxValuePartition(partition))
         /\ planned_empties' = planned_empties + 1
         /\ UNCHANGED <<pc, raised>>

PlanEmptyOf(partition) ==
    PlanEmptyTo(partition, EmptyEdit(partition, LastOf(results)))

\* lines 373-408: one pass of the loop over empty_partitions
PlanEmpty ==
    /\ pc = "empties"
    /\ planned_empties < Len(empty_partitions)
    /\ PlanEmptyOf(empty_partitions[planned_empties + 1])
    /\ UNCHANGED <<PlanArguments, filled_partitions, active_partition,
                   empty_partitions, rates, AfterPlan>>

\* lines 417-421 with a set_timestamp that keeps the hour and the minute
NewEditAtTheMinute(partition_start_time, new_part_pos) ==
    IF new_part_pos.raised # "none" THEN new_part_pos
    ELSE Return([SetPosition(NewPartition, new_part_pos.value).value
                    EXCEPT !.timestamp = Some(partition_start_time)])

\* lines 417-421
NewEditAt(partition_start_time, new_part_pos) ==
    IF new_part_pos.raised # "none" THEN new_part_pos
    ELSE Return(SetTimestamp(SetPosition(NewPartition, new_part_pos.value).value,
                             partition_start_time))

\* lines 412-421: the entry for one new partition
NewEdit(last_changed) ==
    IF last_changed.timestamp = None THEN Raise("TypeError")
    ELSE NewEditAt(Get(last_changed.timestamp) + allowed_lifespan,
            PredictForwardPositionOf(last_changed.positions, rates,
                                     allowed_lifespan))

PlanNewTo(edit) ==
    IF edit.raised # "none"
    THEN PlanRaise(edit.raised) /\ UNCHANGED results
    ELSE results' = Append(results, edit.value) /\ UNCHANGED <<pc, raised>>

\* lines 411-421: one pass of the while loop
PlanNew ==
    /\ pc = "empties"
    /\ planned_empties = Len(empty_partitions)
    /\ Len(results) < num_empty_partitions + 1
    /\ PlanNewTo(NewEdit(LastOf(results)))
    /\ UNCHANGED <<PlanArguments, filled_partitions, active_partition,
                   empty_partitions, rates, affected_max_value_partition,
                   planned_empties, AfterPlan>>

PlanReturnTo(tail) ==
    IF tail.raised # "none"
    THEN PlanRaise(tail.raised) /\ UNCHANGED results
    ELSE /\ results' = [results EXCEPT ![Len(results)] = tail.value]
         /\ pc' = "planned"
         /\ UNCHANGED raised

\* lines 423-428
PlanReturn ==
    /\ pc = "empties"
    /\ planned_empties = Len(empty_partitions)
    /\ Len(results) >= num_empty_partitions + 1
    /\ IF affected_max_value_partition
       THEN PlanReturnTo(SetAsMaxValue(LastOf(results)))
       ELSE pc' = "planned" /\ UNCHANGED <<results, raised>>
    /\ UNCHANGED <<PlanArguments, filled_partitions, active_partition,
                   empty_partitions, rates, affected_max_value_partition,
                   planned_empties, AfterPlan>>

-----------------------------------------------------------------------------
(* evaluate_partition_changes *)

\* Whether the loop of evaluate_partition_changes returns True at entry p
EntryShouldRun(p) ==
    \/ IsNewPartition(p)
    \/ /\ IsChangedPartition(p)
       /\ \/ p.timestamp # Timestamp(Get(p.old))
          \/ p.important

EvaluatePartitionChanges(altered_partitions) ==
    \E i \in 1..Len(altered_partitions) : EntryShouldRun(altered_partitions[i])

\* should_run = evaluate_partition_changes(results)
Evaluate ==
    /\ pc \in {"planned", "build"}
    /\ should_run' = Some(EvaluatePartitionChanges(results))
    /\ pc' = "evaluated"
    /\ UNCHANGED <<PlanArguments, PlanLocals, raised, gen, emitted, predicted,
                   rendered>>

-----------------------------------------------------------------------------
(* generate_sql_reorganize_partition_commands: a generator.  Its body runs  *)
(* when the caller asks for the next statement, up to the next yield.      *)

TableName == "t"

NewGenerator ==
    [state |-> "created", modified_partitions |-> <<>>,
     new_partitions |-> <<>>, partition_names_set |-> {}, done |-> 0]

\* lines 475-478, given has_modifications of each edit
GenModified(modified_partitions, new_partitions, has_modifications) ==
    IF FirstRaised(has_modifications) # "none"
    THEN Raise(FirstRaised(has_modifications))
    ELSE IF \A i \in 1..Len(has_modifications) : ~has_modifications[i].value
    THEN Raise("ValueError")
    ELSE Return([modified_partitions |-> modified_partitions,
                 new_partitions |-> new_partitions])

GenSorted(modified_partitions, new_partitions) ==
    IF new_partitions # <<>>
    THEN Return([modified_partitions |-> modified_partitions,
                 new_partitions |-> new_partitions])
    ELSE GenModified(modified_partitions, new_partitions,
            [i \in 1..Len(modified_partitions) |->
                HasModifications(modified_partitions[i])])

\* lines 463-478: the entries are sorted into edits and additions, and a plan
\* with neither a modification nor an addition is refused
GenPrologue(changes) ==
    IF \E i \in 1..Len(changes) : ~IsModifiedPartition(changes[i])
    THEN Raise("UnexpectedPartitionException")
    ELSE GenSorted(Filter(changes, IsChangedPartition),
                   Filter(changes, IsNewPartition))

\* line 495: one PARTITION clause
PartitionString(part, values) == [name |-> part.name, values |-> values.value]

\* lines 488-496 for the parts of one statement: the first error met, or the
\* names seen and the PARTITION clauses.  Both f"Duplicate {part}" and the
\* PARTITION clause call part.values().
RECURSIVE PartitionStrings(_, _, _)
PartitionStrings(parts, names, strings) ==
    IF parts = <<>> THEN Return([names |-> names, strings |-> strings])
    ELSE IF Values(Head(parts)).raised # "none"
    THEN Raise(Values(Head(parts)).raised)
    ELSE IF Head(parts).name \in names THEN Raise("DuplicatePartitionException")
    ELSE PartitionStrings(Tail(parts), names \cup {Head(parts).name},
             Append(strings, PartitionString(Head(parts), Values(Head(parts)))))

\* lines 497-502
GenStatementWith(modified_partition, strings) ==
    IF strings.raised # "none" THEN strings
    ELSE Return([names |-> strings.value.names,
                 statement |-> [table |-> TableName,
                                reorganize |-> Get(modified_partition.old).name,
                                into |-> strings.value.strings]])

\* lines 483-496, given as_partition() of each planned partition
GenStatementOf(g, modified_partition, new_part_list) ==
    IF FirstRaised(new_part_list) # "none"
    THEN Raise(FirstRaised(new_part_list))
    ELSE GenStatementWith(modified_partition,
            PartitionStrings([i \in 1..Len(new_part_list) |->
                                 new_part_list[i].value],
                             g.partition_names_set, <<>>))

AsPartitions(planned) == [i \in 1..Len(planned) |-> AsPartition(planned[i])]

GenStatementFor(g, modified_partition, is_final) ==
    GenStatementOf(g, modified_partition,
        AsPartitions(<< modified_partition >>
                     \o (IF is_final THEN g.new_partitions ELSE <<>>)))

\* lines 482-502 for the k-th edited partition: one statement, or an error
GenStatement(g, k) ==
    GenStatementFor(g, IterShowEnd(g.modified_partitions)[k][1],
                    IterShowEnd(g.modified_partitions)[k][2])

\* the generator raises e
GenRaise(g, e) ==
    /\ gen' = [g EXCEPT !.state = "raised"]
    /\ raised' = e
    /\ UNCHANGED emitted

GenYield(g, st) ==
    IF st.raised # "none" THEN GenRaise(g, st.raised)
    ELSE /\ gen' = [g EXCEPT !.state = "suspended", !.done = g.done + 1,
                             !.partition_names_set = st.value.names]
         /\ emitted' = Append(emitted, st.value.statement)
         /\ UNCHANGED raised

\* the loop of line 482 goes on, or the generator returns
GenResume(g) ==
    IF g.done + 1 > Len(g.modified_partitions)
    THEN /\ gen' = [g EXCEPT !.state = "finished"]
         /\ UNCHANGED <<raised, emitted>>
    ELSE GenYield(g, GenStatement(g, g.done + 1))

GenStart(prologue) ==
    IF prologue.raised # "none" THEN GenRaise(gen, prologue.raised)
    ELSE GenResume([gen EXCEPT
                      !.modified_partitions = prologue.value.modified_partitions,
                      !.new_partitions = prologue.value.new_partitions])

\* next(generator)
GenNext ==
    /\ pc = "evaluated"
    /\ gen.state \in {"created", "suspended"}
    /\ IF gen.state = "created" THEN GenStart(GenPrologue(results))
       ELSE GenResume(gen)
    /\ UNCHANGED <<PlanArguments, PlanLocals, pc, should_run, predicted,
                   rendered>>

-----------------------------------------------------------------------------
(* The inputs the planner is run on *)

\* [p_20240101: 100, p_20240201: 200, p_tail: MAXVALUE]
ListScenario ==
    << PositionPartition(Ymd(2024, 1, 1), <<100>>),
       PositionPartition(Ymd(2024, 2, 1), <<200>>),
       MaxValuePartition(Name("tail", <<>>), 1) >>

ListDated ==
    << PositionPartition(Ymd(2023, 12, 1), <<100>>),
       PositionPartition(Ymd(2024, 1, 1), <<200>>),
       PositionPartition(Ymd(2024, 1, 31), <<300>>),
       MaxValuePartition(Ymd(2024, 3, 1), 1) >>

ListNoHistory ==
    << PositionPartition(Ymd(2024, 1, 1), <<200>>),
       PositionPartition(Ymd(2024, 1, 31), <<300>>),
       MaxValuePartition(Ymd(2024, 3, 1), 1) >>

ListStart ==
    << PositionPartition(Name("start", <<>>), <<77>>),
       PositionPartition(Ym(2024, 1), <<200>>),
       MaxValuePartition(Name("tail", <<>>), 1) >>

ListTwoColumns ==
    << PositionPartition(Ymd(2023, 12, 1), <<100, 10>>),
       PositionPartition(Ymd(2024, 1, 1), <<200, 20>>),
       MaxValuePartition(Ymd(2024, 1, 31), 2) >>

ListTailOnly == << MaxValuePartition(Ymd(2024, 1, 1), 1) >>

\* the tail starts ten days after the only other partition
ListCutover ==
    << PositionPartition(Ymd(2024, 1, 1), <<200>>),
       MaxValuePartition(Ymd(2024, 1, 11), 1) >>

\* two partitions wait behind the active one, the second far ahead
ListCrowded ==
    << PositionPartition(Ymd(2024, 1, 1), <<100>>),
       PositionPartition(Ymd(2024, 2, 1), <<110>>),
       PositionPartition(Ymd(2024, 3, 1), <<250>>),
       MaxValuePartition(Name("tail", <<>>), 1) >>

PartitionLists ==
    {ListScenario, ListDated, ListNoHistory, ListStart, ListTwoColumns,
     ListTailOnly, ListCutover, ListCrowded}

PositionVectors ==
    {<<50>>, <<150>>, <<200>>, <<250>>, <<400>>,
     <<150, 15>>, <<150, 5>>, <<150, 25>>, <<50, 5>>}

EvaluationTimes ==
    {Datetime(2024, 1, 11), Datetime(2024, 1, 20), Datetime(2024, 2, 15)}

Lifespans ==
    {Timedelta(30, 0, 0, 0), Timedelta(30, 0, 0, 30), Timedelta(7, 0, 0, 0),
     Timedelta(10, 0, 30, 0), Timedelta(10, 1, 0, 0)}

MaxNumEmpty == 3

\* A valid partition list: not empty, a tail last, strictly increasing before
ValidPartitionList(parts) ==
    /\ parts # <<>>
    /\ IsMaxValuePartition(LastOf(parts))
    /\ \A i \in 1..(Len(parts) - 1) : IsPositionPartition(parts[i])
    /\ \A i \in 1..(Len(parts) - 2) :
          PartitionLt(parts[i], parts[i + 1]) = Return(TRUE)

\* nothing has been called yet
Fresh ==
    /\ filled_partitions = <<>>
    /\ active_partition = None
    /\ empty_partitions = <<>>
    /\ rates = <<>>
    /\ results = <<>>
    /\ affected_max_value_partition = FALSE
    /\ planned_empties = 0
    /\ raised = "none"
    /\ should_run = None
    /\ gen = NewGenerator
    /\ emitted = <<>>
    /\ predicted = None
    /\ rendered = None

Init ==
    /\ partition_list \in PartitionLists
    /\ current_positions \in PositionVectors
    /\ evaluation_time \in EvaluationTimes
    /\ allowed_lifespan \in Lifespans
    /\ num_empty_partitions \in 0..MaxNumEmpty
    /\ pc = "plan"
    /\ Fresh

Next ==
    \/ PlanSplit
    \/ PlanRates
    \/ PlanActive
    \/ PlanEmpty
    \/ PlanNew
    \/ PlanReturn
    \/ Evaluate
    \/ GenNext

Spec == Init /\ [][Next]_vars

-----------------------------------------------------------------------------
(* Plans built by hand with the PlannedPartition classes and handed to the  *)
(* gate and to the generator                                               *)

BuildPartitions ==
    << PositionPartition(Ymd(2024, 1, 1), <<100>>),
       MaxValuePartition(Ymd(2024, 2, 1), 1) >>

BuildPositions == {<<150>>}

BuildTimestamps ==
    {Datetime(2024, 1, 1), Datetime(2024, 1, 1) + Timedelta(0, 12, 34, 56),
     Datetime(2024, 2, 1)}

MaxPlanLen == 3

\* An entry of the changes list that is no planned partition: the Partition
\* itself
Unplanned(p) ==
    [type |-> "Partition", old |-> Some(p), num_columns |-> None,
     positions |-> None, timestamp |-> None, important |-> FALSE,
     old_positions |-> None]

InitBuild ==
    /\ partition_list = BuildPartitions
    /\ current_positions = <<>>
    /\ evaluation_time = 0
    /\ allowed_lifespan = 0
    /\ num_empty_partitions = 0
    /\ pc = "build"
    /\ Fresh

BuildFrame ==
    UNCHANGED <<PlanArguments, filled_partitions, active_partition,
                empty_partitions, rates, affected_max_value_partition,
                planned_empties, pc, raised, AfterPlan>>

\* changes.append(ChangedPartition(p))
BuildChanged ==
    /\ pc = "build"
    /\ Len(results) < MaxPlanLen
    /\ \E i \in 1..Len(partition_list) :
          results' = Append(results, ChangedPartition(partition_list[i]))
    /\ BuildFrame

\* changes.append(NewPartition())
BuildNew ==
    /\ pc = "build"
    /\ Len(results) < MaxPlanLen
    /\ results' = Append(results, NewPartition)
    /\ BuildFrame

\* changes.append(p)
BuildUnplanned ==
    /\ pc = "build"
    /\ Len(results) < MaxPlanLen
    /\ results' = Append(results, Unplanned(partition_list[1]))
    /\ BuildFrame

SetLast(entry) == results' = [results EXCEPT ![Len(results)] = entry]

SetLastTo(r) == r.raised = "none" /\ SetLast(r.value)

\* changes[-1].set_position(pos)
BuildSetPosition ==
    /\ pc = "build"
    /\ results # <<>>
    /\ IsModifiedPartition(LastOf(results))
    /\ \E pos \in BuildPositions : SetLastTo(SetPosition(LastOf(results), pos))
    /\ BuildFrame

\* changes[-1].set_timestamp(t)
BuildSetTimestamp ==
    /\ pc = "build"
    /\ results # <<>>
    /\ IsModifiedPartition(LastOf(results))
    /\ \E t \in BuildTimestamps : SetLast(SetTimestamp(LastOf(results), t))
    /\ BuildFrame

\* changes[-1].set_important()
BuildSetImportant ==
    /\ pc = "build"
    /\ results # <<>>
    /\ IsModifiedPartition(LastOf(results))
    /\ SetLast(SetImportant(LastOf(results)))
    /\ BuildFrame

\* changes[-1].set_as_max_value()
BuildSetAsMaxValue ==
    /\ pc = "build"
    /\ results # <<>>
    /\ IsModifiedPartition(LastOf(results))
    /\ SetLastTo(SetAsMaxValue(LastOf(results)))
    /\ BuildFrame

NextBuild ==
    \/ BuildChanged
    \/ BuildNew
    \/ BuildUnplanned
    \/ BuildSetPosition
    \/ BuildSetTimestamp
    \/ BuildSetImportant
    \/ BuildSetAsMaxValue
    \/ Evaluate
    \/ GenNext

SpecBuild == InitBuild /\ [][NextBuild]_vars

-----------------------------------------------------------------------------
(* predict_forward_position called on its own *)

\* 2^53 - 1, 2^53, 2^53 + 1, 2^53 + 3 and 2^54 + 2 among them
PredictValues ==
    {PyInt(-7), PyInt(0), PyInt(5),
     [hi |-> 2^23 - 1, lo |-> Limb - 1], [hi |-> 2^23, lo |-> 0],
     [hi |-> 2^23, lo |-> 1], [hi |-> 2^23, lo |-> 3], [hi |-> 2^24, lo |-> 2]}

PredictRateValues == {Rat(-1, 2), RatInt(0), Rat(1, 3), Rat(5, 2)}

PredictDurations ==
    {0, TenMinutes, Timedelta(1, 0, 0, 0), Timedelta(30, 0, 0, 0)}

MaxColumns == 2

\* the lists of 1..n elements of S
ListsOf(S, n) == UNION {[1..k -> S] : k \in 1..n}

InitPredict ==
    /\ partition_list = <<>>
    /\ current_positions \in ListsOf(PredictValues, MaxColumns)
    /\ rates \in ListsOf(PredictRateValues, MaxColumns)
    /\ allowed_lifespan \in PredictDurations
    /\ evaluation_time = 0
    /\ num_empty_partitions = 0
    /\ pc = "predict"
    /\ filled_partitions = <<>>
    /\ active_partition = None
    /\ empty_partitions = <<>>
    /\ results = <<>>
    /\ affected_max_value_partition = FALSE
    /\ planned_empties = 0
    /\ raised = "none"
    /\ should_run = None
    /\ gen = NewGenerator
    /\ emitted = <<>>
    /\ predicted = None
    /\ rendered = None

PredictTo(r) ==
    IF r.raised # "none"
    THEN raised' = r.raised /\ UNCHANGED predicted
    ELSE predicted' = Some(r.value) /\ UNCHANGED raised

\* predicted = predict_forward_position(current_positions, rates, duration)
Predict ==
    /\ pc = "predict"
    /\ PredictTo(PredictForwardPosition(current_positions, rates,
                                        allowed_lifespan))
    /\ pc' = "predicted"
    /\ UNCHANGED <<PlanArguments, PlanLocals, should_run, gen, emitted, rendered>>

NextPredict == Predict

SpecPredict == InitPredict /\ [][NextPredict]_vars

-----------------------------------------------------------------------------
(* as_partition() called on the edit of one partition *)

RoundNames ==
    {Ymd(2024, 1, 1), Ymd(2024, 2, 29), Ymd(2023, 12, 31), Ym(2024, 1),
     Ym(2024, 11), Name("", <<2, 0, 2, 4, 0, 1, 1>>), Name("", <<2, 0, 2, 4>>),
     Name("start", <<>>), Name("tail", <<>>)}

RoundPositions == {<<>>, <<100>>, <<100, 10>>}

RoundPartitions ==
    {PositionPartition(n, ps) : n \in RoundNames, ps \in RoundPositions}
    \cup {MaxValuePartition(n, c) : n \in RoundNames, c \in 1..MaxColumns}

InitRound ==
    /\ partition_list \in {<< p >> : p \in RoundPartitions}
    /\ current_positions = <<>>
    /\ evaluation_time = 0
    /\ allowed_lifespan = 0
    /\ num_empty_partitions = 0
    /\ pc = "round"
    /\ Fresh

RoundFrame ==
    UNCHANGED <<PlanArguments, filled_partitions, active_partition,
                empty_partitions, rates, affected_max_value_partition,
                planned_empties, raised, should_run, gen, emitted, predicted>>

\* changes = [ChangedPartition(p)]
RoundChanged ==
    /\ pc = "round"
    /\ results' = << ChangedPartition(partition_list[1]) >>
    /\ pc' = "wrapped"
    /\ UNCHANGED rendered
    /\ RoundFrame

\* changes[0].set_timestamp(t), t on the day of the partition's timestamp or
\* a day later
RoundSetTimestamp ==
    /\ pc = "wrapped"
    /\ Timestamp(partition_list[1]) # None
    /\ \E dt \in {0, Timedelta(0, 12, 34, 56), Timedelta(1, 0, 0, 0)} :
          results' = << SetTimestamp(results[1],
                                     Get(Timestamp(partition_list[1])) + dt) >>
    /\ UNCHANGED <<pc, rendered>>
    /\ RoundFrame

\* changes[0].set_position(pos), pos a list equal to the old positions or not
RoundSetPosition ==
    /\ pc = "wrapped"
    /\ \E pos \in RoundPositions :
          /\ SetPosition(results[1], pos).raised = "none"
          /\ results' = << SetPosition(results[1], pos).value >>
    /\ UNCHANGED <<pc, rendered>>
    /\ RoundFrame

\* rendered = changes[0].as_partition()
RoundRender ==
    /\ pc = "wrapped"
    /\ rendered' = Some(AsPartition(results[1]))
    /\ pc' = "rendered"
    /\ UNCHANGED results
    /\ RoundFrame

NextRound ==
    \/ RoundChanged
    \/ RoundSetTimestamp
    \/ RoundSetPosition
    \/ RoundRender

SpecRound == InitRound /\ [][NextRound]_vars

-----------------------------------------------------------------------------
(* Any of the three ways the classes and functions are called above *)

InitCalls == Init \/ InitBuild \/ InitRound

NextCalls ==
    \/ PlanSplit
    \/ PlanRates
    \/ PlanActive
    \/ PlanEmpty
    \/ PlanNew
    \/ PlanReturn
    \/ Evaluate
    \/ GenNext
    \/ BuildChanged
    \/ BuildNew
    \/ BuildUnplanned
    \/ BuildSetPosition
    \/ BuildSetTimestamp
    \/ BuildSetImportant
    \/ BuildSetAsMaxValue
    \/ RoundChanged
    \/ RoundSetTimestamp
    \/ RoundSetPosition
    \/ RoundRender

SpecCalls == InitCalls /\ [][NextCalls]_vars

-----------------------------------------------------------------------------
(* Properties of generate_sql_reorganize_partition_commands, checked on     *)
(* SpecBuild                                                               *)

\* C1: when generate_sql_reorganize_partition_commands ends in an error (a
\* duplicate rendered name, an entry without a timestamp, or an entry that is
\* no planned partition), no statement has been yielded before the error.
\* The generator yields each statement before it looks at the next entry, so
\* this is violated.
C1_NeverPartiallyEmits ==
    (gen.state = "raised"
       /\ raised \in {"DuplicatePartitionException", "ValueError",
                      "UnexpectedPartitionException"})
    => emitted = <<>>

\* the date of an Optional datetime
DateOfOptional(t) == IF t = None THEN None ELSE Some(DateOf(Get(t)))

\* the calendar date of an edit differs from the date of its original
DateDiffers(p) ==
    DateOfOptional(p.timestamp) # DateOfOptional(Timestamp(Get(p.old)))

\* the grounds to run that the gate is described by: new, another calendar
\* date, or marked important
GroundToRun(p) ==
    \/ IsNewPartition(p)
    \/ IsChangedPartition(p) /\ DateDiffers(p)
    \/ IsModifiedPartition(p) /\ p.important

\* C6: evaluate_partition_changes returns True if and only if an entry is
\* new, or an edit's calendar date differs from its original's, or an entry
\* is marked important.  The gate compares the timestamps, and set_timestamp
\* keeps the seconds: an edit to 00:00:56 of the same day runs.  Violated.
C6_GateIffGround ==
    pc = "evaluated"
    => (Get(should_run) <=> \E i \in 1..Len(results) : GroundToRun(results[i]))

\* two planned entries of the plan render to the same partition name
SameRenderedName ==
    \E i, j \in 1..Len(results) :
        /\ i < j
        /\ IsModifiedPartition(results[i]) /\ IsModifiedPartition(results[j])
        /\ results[i].timestamp # None /\ results[j].timestamp # None
        /\ FormatName(Get(results[i].timestamp))
              = FormatName(Get(results[j].timestamp))

\* C8, its second half: a plan in which two entries render to the same name
\* is never completed normally.  A plan of new entries only is completed
\* without a statement whatever its names are.  Violated.
C8_DuplicateNeverAccepted == SameRenderedName => gen.state # "finished"

\* the PARTITION clause of a planned entry
Clause(p) == PartitionString(AsPartition(p).value, Values(AsPartition(p).value))

\* the INTO list C9 describes for the k-th edit
ExpectedInto(modified, new, k) ==
    << Clause(modified[k]) >>
    \o (IF k = Len(modified) THEN [i \in 1..Len(new) |-> Clause(new[i])]
        ELSE <<>>)

StatementsFor(modified, new) ==
    /\ Len(emitted) = Len(modified)
    /\ new # <<>> => emitted # <<>>
    /\ \A k \in 1..Len(emitted) :
          /\ emitted[k].reorganize = Get(modified[k].old).name
          /\ emitted[k].into = ExpectedInto(modified, new, k)

\* C9: for a plan the generator accepts, there is one statement per edit, in
\* plan order, the k-th naming the k-th edit's original partition and starting
\* with that edit's clause; the clause of every new entry is in the last
\* statement, after the edit's clause, in plan order.  A plan of new entries
\* only is accepted and no clause of theirs is ever yielded.  Violated.
C9_OneStatementPerEdit ==
    gen.state = "finished"
    => StatementsFor(Filter(results, IsChangedPartition),
                     Filter(results, IsNewPartition))

-----------------------------------------------------------------------------
(* Properties of plan_partition_changes, checked on Spec *)

\* plan_partition_changes has returned the plan held by results
PlanReturned == pc \in {"planned", "evaluated"}

\* a tail entry: positions is None
IsTailEntry(p) == p.positions = None

\* C2: a plan returned for a valid partition list has exactly one tail entry,
\* the last one; every entry before it has positions.
C2_OneTailLast ==
    (PlanReturned /\ ValidPartitionList(partition_list))
    => /\ results # <<>>
       /\ IsTailEntry(LastOf(results))
       /\ \A i \in 1..(Len(results) - 1) : ~IsTailEntry(results[i])

\* a plan of four entries whose tail entry is a new partition
C2_Witness ==
    /\ pc = "planned"
    /\ ValidPartitionList(partition_list)
    /\ Len(results) = 4
    /\ IsNewPartition(LastOf(results))
    /\ IsTailEntry(LastOf(results))

\* C3: for a valid partition list and positions of as many columns, the split
\* has one active partition, filled + [active] + empty is the list in its
\* order, every filled partition is less than the positions and the active
\* one is not.
C3_SplitKeepsOrder ==
    (pc # "plan" /\ ValidPartitionList(partition_list)
       /\ Len(current_positions) = NumColumns(partition_list[1]))
    => /\ Len(active_partition) = 1
       /\ filled_partitions \o active_partition \o empty_partitions
             = partition_list
       /\ \A i \in 1..Len(filled_partitions) :
             PartitionLt(filled_partitions[i], PyList(current_positions))
                = Return(TRUE)
       /\ PartitionLt(Get(active_partition), PyList(current_positions))
             = Return(FALSE)

\* a split of a list of two columns with a filled and an empty partition
C3_Witness ==
    /\ pc = "rates"
    /\ Len(current_positions) = 2
    /\ filled_partitions # <<>>
    /\ empty_partitions # <<>>

\* [p_20240101: 100, p_20240201: 200, p_tail], position 150, 2024-01-20,
\* 30 days, one empty partition
Scenario ==
    /\ partition_list = ListScenario
    /\ current_positions = <<150>>
    /\ evaluation_time = Datetime(2024, 1, 20)
    /\ allowed_lifespan = Timedelta(30, 0, 0, 0)
    /\ num_empty_partitions = 1

\* the edit p of a partition changes nothing
Unmodified(p) == IsChangedPartition(p) /\ p = ChangedPartition(Get(p.old))

\* C4 as it was stated: in the scenario a plan is returned, with the active
\* partition's entry unmodified, one reconciled entry, at most one new entry,
\* and a tail entry last.  The call raises instead.  Violated.
C4_ScenarioPlan ==
    (Scenario /\ pc \in {"planned", "evaluated", "raised"})
    => /\ PlanReturned
       /\ Unmodified(results[1])
       /\ Cardinality({i \in 2..Len(results) : IsChangedPartition(results[i])}) = 1
       /\ Cardinality({i \in 2..Len(results) : IsNewPartition(results[i])}) <= 1
       /\ IsTailEntry(LastOf(results))

\* C4: in the scenario the active partition is p_20240201, which starts after
\* the evaluation time 2024-01-20: plan_partition_changes raises ValueError at
\* line 325, before it estimates a rate, and no plan entry is made.
C4_ScenarioRaises ==
    Scenario
    => /\ pc \in {"plan", "raised"}
       /\ pc = "raised"
          => /\ raised = "ValueError"
             /\ results = <<>>
             /\ active_partition = Some(ListScenario[2])

\* the scenario after plan_partition_changes has raised
C4_Witness == Scenario /\ pc = "raised" /\ raised = "ValueError"

\* what C5 says of the first entry, given allowed_lifespan - active_lifespan
FirstEntryIs(first, active, remaining_active_lifespan) ==
    /\ IsChangedPartition(first)
    /\ first.old = Some(active)
    /\ IF remaining_active_lifespan < OneHour
       THEN /\ first.important
            /\ first.positions
                  = Some(PredictForwardPositionOf(Some(current_positions), rates,
                                                  TenMinutes).value)
       ELSE /\ ~first.important
            /\ first.positions = Some(active.positions)
            /\ first.timestamp = Timestamp(active)

\* C5: the first entry of a returned plan is the edit of the active partition;
\* it is important, with the current positions ten minutes on at the
\* estimated rates, exactly when allowed_lifespan - (evaluation_time - the
\* active partition's start) is under one hour; otherwise it has the active
\* partition's positions and timestamp and is not important.
C5_ActiveEdit ==
    PlanReturned
    => FirstEntryIs(results[1], Get(active_partition),
          allowed_lifespan
             - (evaluation_time - Get(Timestamp(Get(active_partition)))))

\* a returned plan whose first entry is important and has moved
C5_Witness ==
    /\ pc = "planned"
    /\ results[1].important
    /\ results[1].positions # Some(Get(active_partition).positions)

\* a plan of one unmodified edit and edits that keep their calendar date, none
\* of them marked important
QuietPlan ==
    /\ results # <<>>
    /\ Unmodified(results[1])
    /\ \A i \in 2..Len(results) :
          /\ IsChangedPartition(results[i])
          /\ ~DateDiffers(results[i])
          /\ ~results[i].important

\* C7: for a returned plan of one unmodified edit of the active partition and
\* edits of empty partitions on their original calendar dates (none marked
\* important), evaluate_partition_changes returns False.  An edit whose start
\* keeps the date but not the second (C6) makes the gate return True.
\* Violated.
C7_QuietPlanSkipped ==
    (pc = "evaluated" /\ QuietPlan) => should_run = Some(FALSE)

-----------------------------------------------------------------------------
(* Properties of predict_forward_position, checked on SpecPredict *)

\* C10: with no negative rate, as many rates as positions and a duration that
\* is not negative, predict_forward_position returns positions none of which
\* is under the original one; with a negative rate it raises.  float(p) of a
\* position of more than 53 bits can be under p, and the assertion of line 275
\* fails.  Violated.
C10_PredictsForward ==
    pc = "predicted"
    => IF \E i \in 1..Len(rates) : rates[i].n < 0
       THEN raised # "none" /\ predicted = None
       ELSE (Len(current_positions) = Len(rates) /\ allowed_lifespan >= 0)
            => /\ raised = "none"
               /\ \A i \in 1..Len(current_positions) :
                     ~WideLess(Get(predicted)[i], current_positions[i])

-----------------------------------------------------------------------------
(* Properties of as_partition(), checked on SpecRound *)

\* the edit keeps the positions and the calendar date of the partition it
\* wraps, whose name has a timestamp
KeepsOriginal(p) ==
    /\ Timestamp(Get(p.old)) # None
    /\ p.positions = p.old_positions
    /\ ~DateDiffers(p)

\* C11 as it was stated: as_partition() of an edit that keeps the positions
\* and the calendar date gives a partition equal to the original, whatever
\* the form of its name.  Does not hold: p_202401 comes back as p_20240101,
\* p_start as p_20210101.
C11_RoundTripAnyName ==
    (pc = "rendered" /\ KeepsOriginal(results[1]))
    => Get(rendered) = Return(partition_list[1])

\* a name of the form p_YYYYMMDD: eight digits
IsDayName(name) == name.word = "" /\ Len(name.digits) = 8

\* a partition as_partition() can give back: a tail, or positions that are
\* not the empty list
Renderable(p) == IsMaxValuePartition(p) \/ p.positions # <<>>

\* C11: as_partition() of an edit that keeps the positions and the calendar
\* date gives a partition named p_YYYYMMDD with the timestamp of the original;
\* it is equal to the original exactly when the original is named p_YYYYMMDD
\* and is a tail or has at least one position.
C11_RoundTrip ==
    (pc = "rendered" /\ KeepsOriginal(results[1]))
    => /\ Get(rendered).raised = "none"
       /\ IsDayName(Get(rendered).value.name)
       /\ Timestamp(Get(rendered).value) = Timestamp(partition_list[1])
       /\ (Get(rendered) = Return(partition_list[1]))
             <=> (IsDayName(partition_list[1].name)
                    /\ Renderable(partition_list[1]))

\* the edit of p_20240229 with two positions, its timestamp set again to an
\* hour of the same day, gives p_20240229 back
C11_Witness ==
    /\ pc = "rendered"
    /\ partition_list[1] = PositionPartition(Ymd(2024, 2, 29), <<100, 10>>)
    /\ results[1].timestamp = Some(Datetime(2024, 2, 29) + 56)
    /\ Get(rendered) = Return(partition_list[1])

-----------------------------------------------------------------------------
(* Further properties of plan_partition_changes, checked on Spec *)

\* split_partitions_around_positions has returned into the three locals
SplitReturned == pc # "plan" /\ active_partition # None

\* plan_partition_changes has raised e and has made no plan entry
FailedWithoutEntry(e) == pc = "raised" /\ raised = e /\ results = <<>>

\* C12: once the split has returned, plan_partition_changes raises
\* NoEmptyPartitionsAvailableException when no partition is left after the
\* active one, and ValueError when the active partition's timestamp is not
\* before evaluation_time; results is still empty then, and no plan is
\* returned.
C12_FailsBeforePlanning ==
    SplitReturned
    => /\ empty_partitions = <<>>
          => FailedWithoutEntry("NoEmptyPartitionsAvailableException")
       /\ (/\ empty_partitions # <<>>
           /\ Timestamp(Get(active_partition)) # None
           /\ Get(Timestamp(Get(active_partition))) >= evaluation_time)
          => FailedWithoutEntry("ValueError")

\* the tail is the active partition of a list with filled partitions
C12_Witness ==
    /\ FailedWithoutEntry("NoEmptyPartitionsAvailableException")
    /\ filled_partitions # <<>>
    /\ IsMaxValuePartition(Get(active_partition))
    /\ empty_partitions = <<>>

\* the larger of two numbers
Larger(a, b) == IF a > b THEN a ELSE b

\* the entries of the plan after the edits of the active and of the empty
\* partitions
NewIndices == (Len(empty_partitions) + 2)..Len(results)

\* the plan starts with the edit of the active partition and the edits of the
\* empty partitions in their order, and has only new entries after them
EditsThenNew ==
    /\ Len(results) = Larger(1 + Len(empty_partitions), num_empty_partitions + 1)
    /\ IsChangedPartition(results[1])
    /\ results[1].old = active_partition
    /\ \A i \in 1..Len(empty_partitions) :
          /\ IsChangedPartition(results[i + 1])
          /\ results[i + 1].old = Some(empty_partitions[i])
    /\ \A i \in NewIndices : IsNewPartition(results[i]) /\ results[i].important

\* the positions of entry p moved on by allowed_lifespan at the rates
Projected(p) ==
    Some(PredictForwardPositionOf(p.positions, rates, allowed_lifespan).value)

\* C14 as it was stated: a returned plan has max(1 + empty partitions,
\* num_empty_partitions + 1) entries, the edits first and then new entries,
\* each new entry important, at the previous entry's timestamp plus
\* allowed_lifespan and with the previous entry's positions projected by
\* allowed_lifespan.  Does not hold: a new entry that is last has no
\* positions, and the timestamp has lost the hours and minutes of the sum.
C14_NewEntriesChained ==
    PlanReturned
    => /\ EditsThenNew
       /\ \A i \in NewIndices :
             /\ results[i].timestamp
                   = Some(Get(results[i - 1].timestamp) + allowed_lifespan)
             /\ results[i].positions = Projected(results[i - 1])

\* t with hour and minute 0, the second kept
DayAndSecond(t) ==
    (t \div SecondsPerDay) * SecondsPerDay + (t % SecondsPerMinute)

\* C14: a returned plan has max(1 + empty partitions, num_empty_partitions
\* + 1) entries, the edits first and then new entries; each new entry is
\* important, its timestamp is the previous entry's plus allowed_lifespan
\* with hour and minute set to 0, and its positions are the previous entry's
\* projected by allowed_lifespan, unless it is the last entry of a plan that
\* edits the tail: that one has no positions (it is the tail).
C14_PlanShape ==
    PlanReturned
    => /\ EditsThenNew
       /\ \A i \in NewIndices :
             /\ results[i].timestamp
                   = Some(DayAndSecond(Get(results[i - 1].timestamp)
                                          + allowed_lifespan))
             /\ results[i].positions
                   = (IF i = Len(results) /\ affected_max_value_partition
                      THEN None ELSE Projected(results[i - 1]))

\* a plan with two new entries for a lifespan that is no number of days
C14_Witness ==
    /\ pc = "planned"
    /\ Cardinality(NewIndices) >= 2
    /\ allowed_lifespan % SecondsPerDay >= SecondsPerMinute
    /\ results[Len(results) - 1].positions # None
    /\ LastOf(results).positions = None

\* the bound a of an INTO list is less than the bound b after it: a is no
\* MAXVALUE, and b is MAXVALUE or greater than a in every column
BoundLess(a, b) ==
    /\ ~a.maxvalue
    /\ \/ b.maxvalue
       \/ /\ Len(a.positions) = Len(b.positions)
          /\ \A c \in 1..Len(a.positions) : a.positions[c] < b.positions[c]

\* the bounds of an INTO list ascend
Ascending(into) ==
    \A j \in 1..(Len(into) - 1) : BoundLess(into[j].values, into[j + 1].values)

\* C15: in every statement yielded for a plan of plan_partition_changes the
\* bounds of the INTO list ascend: each is less than the next, and MAXVALUE is
\* only the last.  The projection of the positions may leave them where they
\* are (a rate of 0, or an increase under 1 that int() drops), and then two
\* bounds of a list are equal.  Does not hold.
C15_IntoAscending ==
    \A k \in 1..Len(emitted) : Ascending(emitted[k].into)

\* the generator has refused the plan at line 478: nothing to synthesize
NothingToSynthesize ==
    /\ gen.state = "raised"
    /\ raised = "ValueError"
    /\ gen.modified_partitions = <<>>
    /\ emitted = <<>>

\* C16: when evaluate_partition_changes has returned True for a plan of
\* plan_partition_changes, the generator, once asked for a statement, does not
\* refuse the plan as having nothing to synthesize, and yields a statement.
\* The gate passes an entry that is marked important, has_modifications
\* (line 476) asks for other positions or another date: the urgent edit of an
\* active partition whose positions stay where they are passes the gate and
\* is refused, and so is an edit whose timestamp differs in its seconds only
\* (C6).  Does not hold.
C16_GateAndGeneratorAgree ==
    (should_run = Some(TRUE) /\ gen.state # "created")
    => ~NothingToSynthesize /\ emitted # <<>>

\* the table as its partitions: the name and the bound of each
Layout(parts) ==
    [i \in 1..Len(parts) |-> PartitionString(parts[i], Values(parts[i]))]

\* REORGANIZE PARTITION st.reorganize INTO st.into on a table: the partition
\* of that name gives way to the partitions of the INTO list, in its place
RECURSIVE Reorganized(_, _)
Reorganized(layout, st) ==
    IF layout = <<>> THEN <<>>
    ELSE (IF Head(layout).name = st.reorganize THEN st.into
          ELSE << Head(layout) >>) \o Reorganized(Tail(layout), st)

\* the table after the statements sts, one after the other
RECURSIVE ReorganizedByAll(_, _)
ReorganizedByAll(layout, sts) ==
    IF sts = <<>> THEN layout
    ELSE ReorganizedByAll(Reorganized(layout, Head(sts)), Tail(sts))

\* a table that can be: no name twice, each bound less than the next, which
\* leaves MAXVALUE to the last partition, and the last bound is MAXVALUE
ValidLayout(layout) ==
    /\ layout # <<>>
    /\ \A i, j \in 1..Len(layout) : layout[i].name = layout[j].name => i = j
    /\ Ascending(layout)
    /\ layout[Len(layout)].values.maxvalue

\* C17: the statements yielded for a plan of plan_partition_changes, applied
\* to partition_list one after the other in the order they are yielded, leave
\* a table that can be after each of them: no name twice, the bounds ascending
\* over the whole table, the partitions not yet reorganized included, and one
\* MAXVALUE partition, the last.  The statements come in the order of the
\* plan (line 482), so a partition is given its new bound while the
\* partitions after it still have their old ones, and the new bound may be
\* the old bound of the next: two partitions of the table then end at the
\* same bound.  Does not hold.
C17_LayoutStaysValid ==
    ValidLayout(Layout(partition_list))
    => \A k \in 1..Len(emitted) :
          ValidLayout(ReorganizedByAll(Layout(partition_list),
                                       SubSeq(emitted, 1, k)))

-----------------------------------------------------------------------------
(* The partitions handed in, checked on SpecCalls *)

\* the partition an edit wraps is one of partition_list, as it is there, and
\* _old_positions still holds its positions
WrapsOriginal(p, parts) ==
    /\ \E k \in 1..Len(parts) : p.old = Some(parts[k])
    /\ p.old_positions = (IF IsPositionPartition(Get(p.old))
                          THEN Some(Get(p.old).positions) ELSE None)

\* C13: no step of plan_partition_changes, of the setters, of as_partition()
\* or of the generator changes partition_list or one of its partitions: the
\* list stays as it was, every edit of the plan wraps a partition of the list
\* with its name and positions, an entry keeps the partition it wraps, and the
\* three lists of the split are the list in its order.
C13_OriginalsUntouched ==
    [][/\ partition_list' = partition_list
       /\ \A i \in 1..Len(results') :
             IsChangedPartition(results'[i])
             => WrapsOriginal(results'[i], partition_list)
       /\ \A i \in 1..Len(results) :
             i <= Len(results') => results'[i].old = results[i].old
       /\ active_partition' # None
          => filled_partitions' \o active_partition' \o empty_partitions'
                = partition_list]_vars

\* a plan whose second entry has moved the positions of the partition it
\* wraps, after a statement has been yielded for it
C13_Witness ==
    /\ pc = "evaluated"
    /\ Len(emitted) = 2
    /\ IsChangedPartition(results[2])
    /\ results[2].positions # results[2].old_positions
    /\ WrapsOriginal(results[2], partition_list)

====
